---------------------------- MODULE Spec2Model ----------------------------
(***************************************************************************)
(* Model of the Audion MCP server: the response formatters and the time    *)
(* conversion of audion_client.py, and the tool handlers of server.py.     *)
(*                                                                         *)
(* A string is a sequence of one-character strings, so that strip, split,  *)
(* replace and the f-string formats are computed as Python computes them.  *)
(* A time in seconds (a float in the code) is named by the decimal number  *)
(* it was parsed from, in whole milliseconds.                              *)
(***************************************************************************)
EXTENDS Integers, Sequences, FiniteSets, TLC

VARIABLES
    seconds,    \* argument of _seconds_to_srt_time, in ms (-1: not chosen)
    timecode,   \* its return value (<<>>: not yet called)
    result,     \* argument of _format_vu_response / _format_vh_response
    keywords,   \* argument of _format_vh_response
    format,     \* the format argument the formatter was called with
    formatted,  \* return value of the formatter
    pc,         \* position of the tool invocation in handle_call_tool
    req,        \* the invocation: tool name and arguments
    attempts,   \* number of requests.post calls made by the invocation
    upstream,   \* the upstream's answer to the request
    got,        \* what process_voice_understanding returned to the handler
    target,     \* output path resolved by audion_subtitle_download
    fsys,       \* the filesystem: directories and files
    resp        \* what the host receives

vars == <<seconds, timecode, result, keywords, format, formatted,
          pc, req, attempts, upstream, got, target, fsys, resp>>

(***************************************************************************)
(* Bounds of the model.                                                    *)
(***************************************************************************)
MaxOffset == 9
MaxUtt == 2
MaxTextLen == 2
MaxHlLen == 3
MaxKw == 2
MaxKwLen == 2
MaxTailLen == 3

(***************************************************************************)
(* Strings.                                                                *)
(***************************************************************************)
IsSpace(c) == c \in {" ", "\n", "\t"}

RECURSIVE LStrip(_)
LStrip(s) == IF s # <<>> /\ IsSpace(Head(s)) THEN LStrip(Tail(s)) ELSE s

RECURSIVE RStrip(_)
RStrip(s) ==
    IF s # <<>> /\ IsSpace(s[Len(s)]) THEN RStrip(SubSeq(s, 1, Len(s) - 1)) ELSE s

\* str.strip()
Strip(s) == RStrip(LStrip(s))

Digit(d) == <<"0", "1", "2", "3", "4", "5", "6", "7", "8", "9">>[d + 1]

RECURSIVE IntStr(_)
\* str(n) for n >= 0
IntStr(n) == IF n < 10 THEN <<Digit(n)>> ELSE IntStr(n \div 10) \o <<Digit(n % 10)>>

RECURSIVE ZeroPad(_, _)
\* the format spec 0<w>d: zeros on the left up to a minimum width
ZeroPad(s, w) == IF Len(s) >= w THEN s ELSE ZeroPad(<<"0">> \o s, w)

Fmt02(n) == ZeroPad(IntStr(n), 2)
Fmt03(n) == ZeroPad(IntStr(n), 3)

(***************************************************************************)
(* AudionClient._seconds_to_srt_time                                       *)
(*                                                                         *)
(* A time t is the decimal number the upstream JSON holds, in whole        *)
(* milliseconds; the float the code computes with is the IEEE double       *)
(* nearest to t/1000.  Floor division and modulo by 3600, 60 and 1 are     *)
(* exact on it; the rounding of the double and of the product by 1000 is   *)
(* computed from the remainder of t * 2^e modulo 1000.                     *)
(***************************************************************************)
RECURSIVE Pow2(_)
Pow2(n) == IF n = 0 THEN 1 ELSE 2 * Pow2(n - 1)

RECURSIVE Pow2Mod1000(_)
Pow2Mod1000(n) == IF n = 0 THEN 1 ELSE (2 * Pow2Mod1000(n - 1)) % 1000

Max(a, b) == IF a >= b THEN a ELSE b

\* the binary exponent E of the double t/1000: 2^E <= t/1000 < 2^(E+1)
BinExp(t) ==
    IF t >= 1000
    THEN CHOOSE E \in 0..19 : Pow2(E) * 1000 <= t /\ t < Pow2(E + 1) * 1000
    ELSE CHOOSE E \in (0 - 10)..(0 - 1) :
             1000 <= t * Pow2(0 - E) /\ t * Pow2(0 - E - 1) < 1000

FloorLog2(m) == CHOOSE j \in 0..9 : Pow2(j) <= m /\ m < Pow2(j + 1)

\* int((seconds % 1) * 1000)
Millisecs(t) ==
    LET m == t % 1000
    IN  IF t % 125 = 0 THEN m      \* t/1000 is a multiple of 1/8: an exact double
        ELSE LET E  == BinExp(t)
                 \* the double is t/1000 - (r/1000) ulp when r < 500 and
                 \* t/1000 + (1 - r/1000) ulp when r > 500, ulp = 2^(E-52)
                 r  == (m * Pow2Mod1000(52 - E)) % 1000
                 j  == FloorLog2(m)
                 \* half the gap between m and the double below it is
                 \* 2^(j-53), and 2^(j-54) when m is a power of two
                 sh == E + 1 + (IF Pow2(j) = m THEN 1 ELSE 0)
             IN  IF r > 500 THEN m
                 \* the product m - r * 2^(E-52) rounds to m or stays below it
                 ELSE IF r * Pow2(Max(sh, 0)) <= Pow2(j + Max(0 - sh, 0)) THEN m
                 ELSE m - 1

\* int((seconds % 3600) // 60)
MinutesOf(t) == (t % 3600000) \div 60000

SecondsToSrtTime(t) ==
    LET hours     == t \div 3600000
        minutes   == MinutesOf(t)
        secs      == (t % 60000) \div 1000
        millisecs == Millisecs(t)
    IN  Fmt02(hours) \o <<":">> \o Fmt02(minutes) \o <<":">> \o Fmt02(secs)
          \o <<",">> \o Fmt03(millisecs)

\* Times the conversion is applied to: around the field boundaries, the
\* spec's examples 0 and 3661.5, and past 100 hours.
TimeBases == {0, 990, 59000, 3599000, 3661500, 359999000, 360000000}
Times == {b + d : b \in TimeBases, d \in 0..MaxOffset}
            \cup {b + 125 * d : b \in TimeBases, d \in 0..MaxOffset}

NoTime == 0 - 1

RECURSIVE Strings(_, _)
\* every string over the characters cs of length at most n
Strings(cs, n) ==
    IF n = 0 THEN {<<>>}
    ELSE LET shorter == Strings(cs, n - 1)
         IN  shorter \cup {<<c>> \o s : c \in cs, s \in {x \in shorter : Len(x) = n - 1}}

RECURSIVE Lists(_, _)
\* every sequence of members of S of length at most n
Lists(S, n) ==
    IF n = 0 THEN {<<>>}
    ELSE LET shorter == Lists(S, n - 1)
         IN  shorter \cup {<<e>> \o s : e \in S, s \in {x \in shorter : Len(x) = n - 1}}

(***************************************************************************)
(* TranscriptionResult: the upstream JSON.  keys holds the keys present on *)
(* the path content.output.utterances (and the top-level srt_content and   *)
(* transcript keys, when the upstream sends them); an utterance's keys     *)
(* holds which of text, start and end it carries.                          *)
(***************************************************************************)
AllKeys == {"content", "output", "utterances"}
UttKeys == {"text", "start", "end"}

Utt(ks, txt, s, e) == [keys |-> ks, text |-> txt, start |-> s, end |-> e]
Res(ks, us) == [keys |-> ks, utterances |-> us, srt_content |-> <<>>, transcript |-> <<>>]

\* the loop "for utterance in output['utterances']" runs over these
UtterancesOf(r) == IF AllKeys \subseteq r.keys THEN r.utterances ELSE <<>>

\* utterance.get("text", ""), utterance.get("start", 0), utterance.get("end", 0)
GetStartStored(u) == u.start
GetText(u)  == IF "text"  \in u.keys THEN u.text  ELSE <<>>
GetStart(u) == IF "start" \in u.keys THEN u.start ELSE 0
GetEnd(u)   == IF "end"   \in u.keys THEN u.end   ELSE 0

(***************************************************************************)
(* The value a formatter returns: the result itself (kind "raw") or a      *)
(* one-key dict, whose key is kind and whose value is body.                *)
(***************************************************************************)
NoResult == Res({}, <<>>)
Raw(r) == [kind |-> "raw", body |-> <<>>, raw |-> r]
Dict(k, b) == [kind |-> k, body |-> b, raw |-> NoResult]
NotFormatted == [kind |-> "none", body |-> <<>>, raw |-> NoResult]

(***************************************************************************)
(* AudionClient._format_vu_response                                        *)
(***************************************************************************)
RECURSIVE TranscriptNoSeparator(_)
TranscriptNoSeparator(us) ==
    IF us = <<>> THEN <<>> ELSE GetText(Head(us)) \o TranscriptNoSeparator(Tail(us))

RECURSIVE TranscriptLoop(_)
\* transcript += utterance.get("text", "") + " "
TranscriptLoop(us) ==
    IF us = <<>> THEN <<>> ELSE GetText(Head(us)) \o <<" ">> \o TranscriptLoop(Tail(us))

SrtBlockFromZero(i, u) ==
    IntStr(i - 1) \o <<"\n">> \o SecondsToSrtTime(GetStart(u)) \o <<" ", "-", "-", ">", " ">>
      \o SecondsToSrtTime(GetEnd(u)) \o <<"\n">> \o GetText(u) \o <<"\n", "\n">>

\* f"{i}\n{start_srt} --> {end_srt}\n{text}\n\n"
SrtBlock(i, u) ==
    IntStr(i) \o <<"\n">> \o SecondsToSrtTime(GetStart(u)) \o <<" ", "-", "-", ">", " ">>
      \o SecondsToSrtTime(GetEnd(u)) \o <<"\n">> \o GetText(u) \o <<"\n", "\n">>

RECURSIVE SrtLoop(_, _)
\* for i, utterance in enumerate(output["utterances"], 1): srt_content += ...
SrtLoop(us, i) ==
    IF i > Len(us) THEN <<>> ELSE SrtBlock(i, us[i]) \o SrtLoop(us, i + 1)

FormatVuResponseNoFallback(r, f) ==
    IF f = "json" THEN Raw(r)
    ELSE IF f = "srt" THEN Dict("srt_content", Strip(SrtLoop(UtterancesOf(r), 1)))
    ELSE Dict("transcript", Strip(TranscriptLoop(UtterancesOf(r))))

FormatVuResponse(r, f) ==
    IF f = "json" THEN Raw(r)
    ELSE IF f = "text" THEN Dict("transcript", Strip(TranscriptLoop(UtterancesOf(r))))
    ELSE IF f = "srt" THEN Dict("srt_content", Strip(SrtLoop(UtterancesOf(r), 1)))
    ELSE Raw(r)

(***************************************************************************)
(* AudionClient._format_vh_response                                        *)
(***************************************************************************)
\* str.lower(), on the characters of the model
Lower(c) ==
    CASE c = "A" -> "a" [] c = "C" -> "c" [] c = "T" -> "t" [] OTHER -> c

LowerStr(s) == [i \in 1..Len(s) |-> Lower(s[i])]

StartsWith(s, p) == Len(p) <= Len(s) /\ SubSeq(s, 1, Len(p)) = p

RECURSIVE Contains(_, _)
\* sub in s
Contains(s, sub) ==
    \/ StartsWith(s, sub)
    \/ s # <<>> /\ Contains(Tail(s), sub)

RECURSIVE Replace(_, _, _)
\* s.replace(old, new), old not empty: left to right, occurrences not overlapping
Replace(s, old, new) ==
    IF s = <<>> THEN <<>>
    ELSE IF StartsWith(s, old)
         THEN new \o Replace(SubSeq(s, Len(old) + 1, Len(s)), old, new)
         ELSE <<Head(s)>> \o Replace(Tail(s), old, new)

Bold(k) == <<"*", "*">> \o k \o <<"*", "*">>
Mark(k) == <<"<mark class='highlight'>">> \o k \o <<"</mark>">>

\* if keyword.lower() in text.lower(): text = text.replace(keyword, f"**{keyword}**")
HighlightOne(text, k) ==
    IF Contains(LowerStr(text), LowerStr(k)) THEN Replace(text, k, Bold(k)) ELSE text
MarkOne(text, k) ==
    IF Contains(LowerStr(text), LowerStr(k)) THEN Replace(text, k, Mark(k)) ELSE text

RECURSIVE HighlightAll(_, _)
\* for keyword in keywords: ... (each pass works on the text the earlier ones left)
HighlightAll(text, ks) ==
    IF ks = <<>> THEN text ELSE HighlightAll(HighlightOne(text, Head(ks)), Tail(ks))

RECURSIVE MarkAll(_, _)
MarkAll(text, ks) ==
    IF ks = <<>> THEN text ELSE MarkAll(MarkOne(text, Head(ks)), Tail(ks))

RECURSIVE HighlightLoop(_, _)
\* highlighted_text += text + " "
HighlightLoop(us, ks) ==
    IF us = <<>> THEN <<>>
    ELSE HighlightAll(GetText(Head(us)), ks) \o <<" ">> \o HighlightLoop(Tail(us), ks)

RECURSIVE HtmlLoop(_, _)
\* html_content += f"<p data-time='{start_time}'>{text}</p>"
\* (the start time is written as its number of milliseconds)
HtmlLoop(us, ks) ==
    IF us = <<>> THEN <<>>
    ELSE <<"<p data-time='">> \o IntStr(GetStart(Head(us))) \o <<"'>">>
           \o MarkAll(GetText(Head(us)), ks) \o <<"</p>">> \o HtmlLoop(Tail(us), ks)

FormatVhResponse(r, ks, f) ==
    IF f = "json" THEN Raw(r)
    ELSE IF f = "text" THEN Dict("highlighted_text", Strip(HighlightLoop(UtterancesOf(r), ks)))
    ELSE IF f = "html"
         THEN Dict("html_content",
                   <<"<div class='transcript'>">> \o HtmlLoop(UtterancesOf(r), ks) \o <<"</div>">>)
    ELSE Raw(r)

(***************************************************************************)
(* The tool invocation at rest (the server part of the state is defined    *)
(* with the handlers below).                                               *)
(***************************************************************************)
NoReq == [name |-> "", given |-> FALSE, has_source |-> FALSE, input_source |-> <<>>,
          has_keywords |-> FALSE, highlight_keywords |-> <<>>,
          output_path |-> <<>>, format |-> ""]
NoReply == [outcome |-> "none", result |-> NoResult]
NoResp == [kind |-> "none", status |-> "", message |-> <<>>, source |-> <<>>,
           highlight_keywords |-> <<>>, payload |-> NotFormatted,
           output_path |-> <<>>, format |-> "", size |-> 0]
NoFiles == [dirs |-> {}, files |-> {}]

ServerIdle ==
    /\ pc = "idle" /\ req = NoReq /\ attempts = 0 /\ upstream = NoReply
    /\ got = NotFormatted /\ target = <<>> /\ fsys = NoFiles /\ resp = NoResp
TimeIdle == seconds = NoTime /\ timecode = <<>>
FormatIdle == result = NoResult /\ keywords = <<>> /\ format = "" /\ formatted = NotFormatted

serverVars == <<pc, req, attempts, upstream, got, target, fsys, resp>>
timeVars == <<seconds, timecode>>
formatVars == <<result, keywords, format, formatted>>

(***************************************************************************)
(* SpecTime: _seconds_to_srt_time applied to one time.                     *)
(***************************************************************************)
InitTime == seconds \in Times /\ timecode = <<>> /\ FormatIdle /\ ServerIdle

Convert ==
    /\ seconds # NoTime /\ timecode = <<>>
    /\ timecode' = SecondsToSrtTime(seconds)
    /\ UNCHANGED <<seconds, formatVars, serverVars>>

NextTime == Convert

SpecTime == InitTime /\ [][NextTime]_vars

(***************************************************************************)
(* SpecFormat: _format_vu_response applied to one transcription result.    *)
(***************************************************************************)
FmtChars == {"a", " "}
FmtTexts == Strings(FmtChars, MaxTextLen)
TimePairs ==
    {<<0, 1500>>, <<3661500, 3662250>>}
FullUtts == {Utt(UttKeys, t, p[1], p[2]) : t \in FmtTexts, p \in TimePairs}
PartialUtts ==
    {Utt(ks, <<"a">>, 1000, 2000) : ks \in (SUBSET UttKeys) \ {UttKeys}}
KeyChains == {{}, {"content"}, {"content", "output"}}
FormatResults ==
    {Res(AllKeys, us) : us \in Lists(FullUtts \cup PartialUtts, MaxUtt)}
      \cup {Res(ks, <<Utt(UttKeys, <<"a">>, 0, 1000)>>) : ks \in KeyChains}
VuFormats == {"json", "text", "srt", "xml"}

InitFormat ==
    /\ result \in FormatResults /\ keywords = <<>> /\ format = ""
    /\ formatted = NotFormatted /\ TimeIdle /\ ServerIdle

ApplyFormatVu ==
    /\ formatted = NotFormatted
    /\ \E f \in VuFormats :
         /\ format' = f
         /\ formatted' = FormatVuResponse(result, f)
    /\ UNCHANGED <<result, keywords, timeVars, serverVars>>

NextFormat == ApplyFormatVu

SpecFormat == InitFormat /\ [][NextFormat]_vars

(***************************************************************************)
(* SpecHighlight: _format_vh_response applied to one result and one        *)
(* keyword list.                                                           *)
(***************************************************************************)
HlChars == {"a", "A", " "}
KwChars == {"a", "A"}
HlTexts == Strings(HlChars, MaxHlLen)
Keywords == Strings(KwChars, MaxKwLen) \ {<<>>}
TheCatSat == <<"t", "h", "e", " ", "c", "a", "t", " ", "s", "a", "t">>
Cat == <<"c", "a", "t">>
HlUtt(t) == Utt(UttKeys, t, 0, 1000)
HlResults ==
    {Res(AllKeys, <<HlUtt(t)>>) : t \in HlTexts}
      \cup {Res(AllKeys, <<HlUtt(TheCatSat)>>),
            Res(AllKeys, <<HlUtt(<<"C", "a", "t">>), HlUtt(TheCatSat)>>),
            Res(AllKeys, <<>>), Res({"content"}, <<HlUtt(TheCatSat)>>)}
KeywordLists == Lists(Keywords, MaxKw) \cup {<<Cat>>, <<Cat, <<"a">>>>}
VhFormats == {"json", "text", "html", "xml"}

InitHighlight ==
    /\ result \in HlResults /\ keywords \in KeywordLists /\ format = ""
    /\ formatted = NotFormatted /\ TimeIdle /\ ServerIdle

ApplyFormatVh ==
    /\ formatted = NotFormatted
    /\ \E f \in VhFormats :
         /\ format' = f
         /\ formatted' = FormatVhResponse(result, keywords, f)
    /\ UNCHANGED <<result, keywords, timeVars, serverVars>>

NextHighlight == ApplyFormatVh

SpecHighlight == InitHighlight /\ [][NextHighlight]_vars

(***************************************************************************)
(* SpecMissing: both formatters applied to results that lack some of the   *)
(* keys content, output, utterances, or whose utterances lack some of      *)
(* text, start, end.  A key that is absent leaves its field of the record  *)
(* without meaning; the fields below hold values that no formatter may     *)
(* read.                                                                   *)
(***************************************************************************)
MissingTexts == {<<"a">>, <<"A", " ">>}
MissingUtts == {Utt(ks, t, 1500, 2250) : ks \in SUBSET UttKeys, t \in MissingTexts}
MissingResults ==
    {Res(ks, us) : ks \in KeyChains \cup {AllKeys}, us \in Lists(MissingUtts, MaxUtt)}
MissingKeywordLists == {<<>>, <<<<"a">>>>}

InitMissing ==
    /\ result \in MissingResults /\ keywords \in MissingKeywordLists /\ format = ""
    /\ formatted = NotFormatted /\ TimeIdle /\ ServerIdle

NextMissing == ApplyFormatVu \/ ApplyFormatVh

SpecMissing == InitMissing /\ [][NextMissing]_vars

(***************************************************************************)
(* server.py: paths and file content of audion_subtitle_download.          *)
(* A source or path is a string whose scheme ("https:"), host names and    *)
(* format tags are single characters of the model.                         *)
(***************************************************************************)
RECURSIVE AfterLast(_, _)
\* s.split(c)[-1]
AfterLast(s, c) ==
    IF \E i \in 1..Len(s) : s[i] = c
    THEN AfterLast(SubSeq(s, (CHOOSE i \in 1..Len(s) : s[i] = c) + 1, Len(s)), c)
    ELSE s

\* s.split(c)[0]
BeforeFirst(s, c) ==
    IF \E i \in 1..Len(s) : s[i] = c
    THEN SubSeq(s, 1, (CHOOSE i \in 1..Len(s) : s[i] = c /\ \A j \in 1..(i - 1) : s[j] # c) - 1)
    ELSE s

\* AudionClient._is_url
IsUrl(src) ==
    \/ StartsWith(src, <<"http:", "/", "/">>)
    \/ StartsWith(src, <<"https:", "/", "/">>)
    \/ StartsWith(src, <<"youtu.be">>)
    \/ StartsWith(src, <<"www.youtube.com">>)

InputType(src) == IF IsUrl(src) THEN "url" ELSE "file"

\* input_source.startswith(('http://', 'https://'))
IsHttp(src) ==
    StartsWith(src, <<"http:", "/", "/">>) \/ StartsWith(src, <<"https:", "/", "/">>)

\* input_source.split('/')[-1].split('?')[0].split('.')[0]
UrlFilenameBase(src) == BeforeFirst(BeforeFirst(AfterLast(src, "/"), "?"), ".")

\* the part of s before its last "/" (s has one)
BeforeLast(s, c) ==
    SubSeq(s, 1, (CHOOSE i \in 1..Len(s) : s[i] = c /\ \A j \in (i + 1)..Len(s) : s[j] # c) - 1)

RECURSIVE PathName(_)
\* Path(s).name: the last component, empty and "." components being dropped
PathName(s) ==
    IF AfterLast(s, "/") \notin {<<>>, <<".">>} THEN AfterLast(s, "/")
    ELSE IF \E i \in 1..Len(s) : s[i] = "/" THEN PathName(BeforeLast(s, "/"))
    ELSE <<>>

\* Path(input_source).stem
Stem(src) ==
    LET name == PathName(src)
        dots == {i \in 1..Len(name) : name[i] = "."}
    IN  IF dots = {} THEN name
        ELSE LET i == CHOOSE d \in dots : \A e \in dots : e <= d
             IN  IF 1 < i /\ i < Len(name) THEN SubSeq(name, 1, i - 1) ELSE name

Timestamped == <<"subtitle_<%Y%m%d_%H%M%S>">>

FilenameBase(src) ==
    IF IsHttp(src)
    THEN (IF UrlFilenameBase(src) = <<>> THEN Timestamped ELSE UrlFilenameBase(src))
    ELSE Stem(src)

SubtitleDir == <<"subtitles">>

\* subtitle_dir / f"{filename_base}.{format}"
DefaultPath(src, f) == SubtitleDir \o <<"/">> \o FilenameBase(src) \o <<".", f>>

\* output_path.parent
Parent(path) ==
    LET slashes == {i \in 1..Len(path) : path[i] = "/"}
    IN  IF slashes = {} THEN <<".">>
        ELSE SubSeq(path, 1, (CHOOSE i \in slashes : \A j \in slashes : j <= i) - 1)

\* "k" in result, result["k"], for the value process_voice_understanding returned
HasKey(g, k) == g.kind = k \/ (g.kind = "raw" /\ k \in g.raw.keys)
ValueOf(g, k) ==
    IF g.kind = k THEN g.body
    ELSE IF k = "srt_content" THEN g.raw.srt_content ELSE g.raw.transcript

RECURSIVE CommasToPeriods(_)
\* srt_content.replace(',', '.')
CommasToPeriods(s) ==
    IF s = <<>> THEN <<>>
    ELSE <<IF Head(s) = "," THEN "." ELSE Head(s)>> \o CommasToPeriods(Tail(s))

WebVtt == <<"W", "E", "B", "V", "T", "T", "\n", "\n">>

Quoted(str) == <<"\"">> \o str \o <<"\"">>

JsonUtterance(u) ==
    <<"{">>
      \o (IF "text" \in u.keys THEN <<"text:">> \o Quoted(u.text) ELSE <<>>)
      \o (IF "start" \in u.keys THEN <<"start:">> \o IntStr(u.start) ELSE <<>>)
      \o (IF "end" \in u.keys THEN <<"end:">> \o IntStr(u.end) ELSE <<>>)
      \o <<"}">>

RECURSIVE JsonUtterances(_)
JsonUtterances(us) ==
    IF us = <<>> THEN <<>> ELSE JsonUtterance(Head(us)) \o JsonUtterances(Tail(us))

\* json.dumps(result, indent=2, ensure_ascii=False): the keys and the
\* punctuation are single characters of the model; times are in milliseconds
JsonDump(g) ==
    IF g.kind # "raw" THEN <<"{", g.kind, ":">> \o Quoted(g.body) \o <<"}">>
    ELSE LET r == g.raw
         IN  <<"{">>
               \o (IF "content" \in r.keys
                   THEN <<"content:", "{">>
                          \o (IF "output" \in r.keys
                              THEN <<"output:", "{">>
                                     \o (IF "utterances" \in r.keys
                                         THEN <<"utterances:", "[">>
                                                \o JsonUtterances(r.utterances) \o <<"]">>
                                         ELSE <<>>)
                                     \o <<"}">>
                              ELSE <<>>)
                          \o <<"}">>
                   ELSE <<>>)
               \o (IF "srt_content" \in r.keys
                   THEN <<"srt_content:">> \o Quoted(r.srt_content) ELSE <<>>)
               \o (IF "transcript" \in r.keys
                   THEN <<"transcript:">> \o Quoted(r.transcript) ELSE <<>>)
               \o <<"}">>

\* "Extract subtitle content based on format"
SubtitleContent(g, f) ==
    IF f = "srt" /\ HasKey(g, "srt_content") THEN ValueOf(g, "srt_content")
    ELSE IF f = "vtt" /\ HasKey(g, "srt_content")
         THEN WebVtt \o CommasToPeriods(ValueOf(g, "srt_content"))
    ELSE IF f = "txt" /\ HasKey(g, "transcript") THEN ValueOf(g, "transcript")
    ELSE IF HasKey(g, "srt_content") THEN ValueOf(g, "srt_content")
    ELSE JsonDump(g)

\* The characters outside ASCII that the model's texts contain: a two-byte
\* and a three-byte code point of UTF-8.
EAcute == "U+00E9"
Hangul == "U+D55C"

\* number of bytes of one character under encoding='utf-8'
Utf8Width(c) == IF c = EAcute THEN 2 ELSE IF c = Hangul THEN 3 ELSE 1

RECURSIVE Utf8Len(_)
\* len(subtitle_content.encode('utf-8')), the bytes write_text puts in the file
Utf8Len(str) == IF str = <<>> THEN 0 ELSE Utf8Width(Head(str)) + Utf8Len(Tail(str))

\* a file: its path, the text it holds and the number of bytes on disk
File(path, content) == [path |-> path, content |-> content, bytes |-> Utf8Len(content)]

\* output_path.write_text(subtitle_content, encoding='utf-8')
WriteText(fs, path, content) ==
    [fs EXCEPT !.files = {f \in fs.files : f.path # path} \cup {File(path, content)}]

\* mkdir(exist_ok=True)
MkDir(fs, dir) == [fs EXCEPT !.dirs = fs.dirs \cup {dir}]

\* str(output_path.absolute())
Absolute(path) == IF path # <<>> /\ Head(path) = "/" THEN path ELSE <<"<cwd>", "/">> \o path

(***************************************************************************)
(* server.py: what the host receives.                                      *)
(***************************************************************************)
ToolPrefix(name) ==
    CASE name = "audion_vu" -> "Failed to process voice understanding: "
      [] name = "audion_vh" -> "Failed to process voice highlighting: "
      [] OTHER              -> "Failed to generate subtitle file: "

FlowError(cause) == <<"Failed to call Audion API: ", cause>>

ProcessFailureRaised(r, detail) ==
    [NoResp EXCEPT !.kind = "raised", !.message = detail]

\* the except clauses of audion_vu_process, audion_vh_process and
\* audion_subtitle_download
ProcessFailure(r, detail) ==
    [NoResp EXCEPT !.kind = "json", !.status = "error",
                   !.message = <<ToolPrefix(r.name)>> \o detail,
                   !.source = r.input_source,
                   !.highlight_keywords =
                       IF r.name = "audion_vh" THEN r.highlight_keywords ELSE <<>>]

\* json.dumps of the dict a process function returned
Returned(g) == [NoResp EXCEPT !.kind = "json", !.payload = g]

\* the success dict of audion_subtitle_download
Saved(r, path, content) ==
    [NoResp EXCEPT !.kind = "json", !.status = "success",
                   !.message = <<"Subtitle file saved successfully">>,
                   !.output_path = Absolute(path), !.format = r.format,
                   !.size = Len(content), !.source = r.input_source]

\* raise ValueError("Arguments are required")
Raised(msg) == [NoResp EXCEPT !.kind = "raised", !.message = <<msg>>]

\* TextContent(type="text", text=f"Error: {str(e)}")
ErrorText(msg) == [NoResp EXCEPT !.kind = "error_text", !.message = <<"Error: ", msg>>]

(***************************************************************************)
(* The invocations the host makes.                                         *)
(***************************************************************************)
TailChars == {"v", ".", "/", "?"}
UrlSources ==
    {<<"https:", "/", "/", "h", "/">> \o t : t \in Strings(TailChars, MaxTailLen)}
      \cup {<<"http:", "/", "/", "h">>}
FileSources == {<<"d", "/", "v", ".", "m">>, <<"v", ".", "t", ".", "m">>}
FewSources ==
    {<<"https:", "/", "/", "h", "/", "v", ".", "m", "?", "x">>, <<"youtu.be", "/", "v">>,
     <<"d", "/", "v", ".", "m">>}
ExplicitPath == <<"o", "/", "s", ".", "srt">>
SubFormats == {"srt", "vtt", "txt", "text", "json", "xml"}
FewKeywordLists == {<<>>, <<<<"a">>>>}

Args(src, kws, out, f) ==
    [NoReq EXCEPT !.given = TRUE, !.has_source = TRUE, !.input_source = src,
                  !.has_keywords = (kws # <<"absent">>),
                  !.highlight_keywords = IF kws = <<"absent">> THEN <<>> ELSE kws,
                  !.output_path = out, !.format = f]

VuArgs == {Args(src, <<"absent">>, <<>>, f) : src \in FewSources, f \in VuFormats}
VhArgs == {Args(src, kws, <<>>, f) : src \in FewSources, kws \in FewKeywordLists, f \in VhFormats}
SubArgs ==
    {Args(src, <<"absent">>, <<>>, f) : src \in UrlSources \cup FileSources, f \in SubFormats}
      \cup {Args(src, <<"absent">>, ExplicitPath, f) : src \in FewSources, f \in SubFormats}
NoSourceArgs == [NoReq EXCEPT !.given = TRUE, !.format = "json"]

ToolNames == {"audion_vu", "audion_vh", "audion_subtitle", "audion_xx"}

Invocations ==
    {[a EXCEPT !.name = "audion_vu"] : a \in VuArgs \cup {NoSourceArgs}}
      \cup {[a EXCEPT !.name = "audion_vh"] : a \in VhArgs \cup VuArgs \cup {NoSourceArgs}}
      \cup {[a EXCEPT !.name = "audion_subtitle"] : a \in SubArgs \cup {NoSourceArgs}}
      \cup {[a EXCEPT !.name = "audion_xx"] : a \in {NoSourceArgs}}
      \cup {[NoReq EXCEPT !.name = n] : n \in ToolNames}

\* AudionVuInput(**arguments), AudionVhInput(**arguments), AudionSubtitleInput(**arguments)
SchemaValid(r) ==
    /\ r.has_source
    /\ r.name = "audion_vh" => r.has_keywords

Replies ==
    {[outcome |-> "ok", result |-> r] :
        r \in {Res(AllKeys, <<>>),
               Res(AllKeys, <<Utt(UttKeys, <<"a">>, 0, 1500)>>),
               Res(AllKeys, <<Utt(UttKeys, <<"a">>, 0, 1500),
                              Utt(UttKeys, <<"b", " ">>, 1500, 3661500)>>),
               Res({"content"}, <<>>),
               Res(AllKeys, <<Utt(UttKeys, <<EAcute, Hangul>>, 0, 1500)>>),
               [Res(AllKeys \cup {"srt_content", "transcript"}, <<>>)
                   EXCEPT !.srt_content = <<"1", ",", "2">>, !.transcript = <<"t">>]}}
      \cup {[outcome |-> o, result |-> NoResult] : o \in {"transport", "status", "badjson"}}

UpstreamCause(o) ==
    CASE o = "transport" -> "<requests exception>"
      [] o = "status"    -> "API request failed with status <code>: <text>"
      [] OTHER           -> "<json decode error>"

InitialFs ==
    {NoFiles,
     [dirs |-> {SubtitleDir},
      files |-> {File(SubtitleDir \o <<"/", "v", ".", "srt">>, <<"o", "l", "d">>)}]}

(***************************************************************************)
(* Spec: one tool invocation, from handle_call_tool to the response.       *)
(***************************************************************************)
Init ==
    /\ pc = "idle" /\ req = NoReq /\ attempts = 0 /\ upstream = NoReply
    /\ got = NotFormatted /\ target = <<>> /\ resp = NoResp
    /\ fsys \in InitialFs
    /\ TimeIdle /\ FormatIdle

\* handle_call_tool up to the call of the process function
CallTool ==
    /\ pc = "idle"
    /\ \E r \in Invocations :
         /\ req' = r
         /\ IF ~r.given
            THEN pc' = "done" /\ resp' = Raised("Arguments are required")
            ELSE IF r.name \notin {"audion_vu", "audion_vh", "audion_subtitle"}
            THEN pc' = "done" /\ resp' = ErrorText("Unknown tool: <name>")
            ELSE IF ~SchemaValid(r)
            THEN pc' = "done" /\ resp' = ErrorText("<validation error>")
            ELSE pc' = "flow" /\ resp' = resp
    /\ UNCHANGED <<attempts, upstream, got, target, fsys, timeVars, formatVars>>

\* one requests.post
Post(n) == n + 1

FlowSendMakingDir ==
    /\ pc = "flow"
    /\ \E readable \in BOOLEAN :
         IF InputType(req.input_source) = "file" /\ ~readable
         THEN /\ pc' = "done"
              /\ resp' = ProcessFailure(req, FlowError("<cannot open file>"))
              /\ attempts' = attempts
         ELSE /\ pc' = "posted"
              /\ resp' = resp
              /\ attempts' = Post(attempts)
    /\ fsys' = IF req.name = "audion_subtitle" /\ req.output_path = <<>>
               THEN MkDir(fsys, SubtitleDir) ELSE fsys
    /\ UNCHANGED <<req, upstream, got, target, timeVars, formatVars>>

\* AudionClient.flow up to requests.post
FlowSend ==
    /\ pc = "flow"
    /\ \E readable \in BOOLEAN :
         IF InputType(req.input_source) = "file" /\ ~readable
         THEN /\ pc' = "done"
              /\ resp' = ProcessFailure(req, FlowError("<cannot open file>"))
              /\ attempts' = attempts
         ELSE IF InputType(req.input_source) \notin {"file", "url"}
         THEN /\ pc' = "done"
              /\ resp' = ProcessFailure(req, FlowError("Unsupported input type: <type>"))
              /\ attempts' = attempts
         ELSE /\ pc' = "posted"
              /\ resp' = resp
              /\ attempts' = Post(attempts)
    /\ UNCHANGED <<req, upstream, got, target, fsys, timeVars, formatVars>>

\* the rest of AudionClient.flow, the formatter, and the process function's return
UpstreamReply ==
    /\ pc = "posted"
    /\ \E rep \in Replies :
         /\ upstream' = rep
         /\ IF rep.outcome # "ok"
            THEN /\ pc' = "done" /\ got' = got
                 /\ resp' = ProcessFailure(req, FlowError(UpstreamCause(rep.outcome)))
            ELSE IF req.name = "audion_vu"
            THEN /\ pc' = "done" /\ got' = got
                 /\ resp' = Returned(FormatVuResponse(rep.result, req.format))
            ELSE IF req.name = "audion_vh"
            THEN /\ pc' = "done" /\ got' = got
                 /\ resp' = Returned(FormatVhResponse(rep.result, req.highlight_keywords, req.format))
            ELSE /\ pc' = "resolve" /\ resp' = resp
                 /\ got' = FormatVuResponse(rep.result, req.format)
    /\ UNCHANGED <<req, attempts, target, fsys, timeVars, formatVars>>

\* audion_subtitle_download, "Determine output path"
ResolvePath ==
    /\ pc = "resolve"
    /\ \E made \in BOOLEAN :
         IF ~made
         THEN /\ pc' = "done" /\ target' = target /\ fsys' = fsys
              /\ resp' = ProcessFailure(req, <<"<mkdir error>">>)
         ELSE /\ pc' = "write" /\ resp' = resp
              /\ IF req.output_path = <<>>
                 THEN /\ fsys' = MkDir(fsys, SubtitleDir)
                      /\ target' = DefaultPath(req.input_source, req.format)
                 ELSE /\ fsys' = MkDir(fsys, Parent(req.output_path))
                      /\ target' = req.output_path
    /\ UNCHANGED <<req, attempts, upstream, got, timeVars, formatVars>>

\* audion_subtitle_download, "Extract subtitle content" and "Write subtitle file"
WriteFile ==
    /\ pc = "write"
    /\ \E written \in BOOLEAN :
         IF ~written
         THEN /\ fsys' = fsys
              /\ resp' = ProcessFailure(req, <<"<write error>">>)
         ELSE /\ fsys' = WriteText(fsys, target, SubtitleContent(got, req.format))
              /\ resp' = Saved(req, target, SubtitleContent(got, req.format))
    /\ pc' = "done"
    /\ UNCHANGED <<req, attempts, upstream, got, target, timeVars, formatVars>>

Next == CallTool \/ FlowSend \/ UpstreamReply \/ ResolvePath \/ WriteFile

Spec == Init /\ [][Next]_vars

(***************************************************************************)
(* Claims about the formatters.                                            *)
(***************************************************************************)
RECURSIVE JoinTexts(_)
\* the utterance texts joined by exactly one space between consecutive texts
JoinTexts(us) ==
    IF us = <<>> THEN <<>>
    ELSE IF Len(us) = 1 THEN GetText(us[1])
    ELSE GetText(Head(us)) \o <<" ">> \o JoinTexts(Tail(us))

NoEdgeSpace(b) == b = <<>> \/ (~IsSpace(b[1]) /\ ~IsSpace(b[Len(b)]))

\* b is j without its leading and trailing whitespace
TrimOf(b, j) ==
    /\ NoEdgeSpace(b)
    /\ \E lo \in 1..(Len(j) + 1) : \E hi \in 0..Len(j) :
         /\ b = SubSeq(j, lo, hi)
         /\ \A k \in 1..Len(j) : (k < lo \/ k > hi) => IsSpace(j[k])

\* b is j without its trailing whitespace
RTrimOf(b, j) ==
    /\ b = <<>> \/ ~IsSpace(b[Len(b)])
    /\ \E hi \in 0..Len(j) :
         /\ b = SubSeq(j, 1, hi)
         /\ \A k \in 1..Len(j) : k > hi => IsSpace(j[k])

TextCase == format = "text" /\ formatted # NotFormatted
SrtCase == format = "srt" /\ formatted # NotFormatted
FullyKeyed(r) ==
    AllKeys \subseteq r.keys /\ \A i \in 1..Len(r.utterances) : r.utterances[i].keys = UttKeys

\* C1 as claimed: with format "text" the transcript is the N utterance texts
\* joined by single spaces, has no leading or trailing whitespace, and is
\* empty when N = 0 (read on the results whose utterances carry every key).
C1_TextIsPlainJoin ==
    TextCase /\ FullyKeyed(result) =>
        /\ formatted.kind = "transcript"
        /\ formatted.body = JoinTexts(UtterancesOf(result))
        /\ NoEdgeSpace(formatted.body)
        /\ (UtterancesOf(result) = <<>> => formatted.body = <<>>)

\* C1 amended: with format "text" the transcript is the N utterance texts (a
\* missing text counting as empty) joined by single spaces, with the leading
\* and trailing whitespace of that joined string removed; it is the plain
\* join whenever the join neither starts nor ends with whitespace, and it is
\* empty when N = 0.
C1_TextIsTrimmedJoin ==
    TextCase =>
        LET j == JoinTexts(UtterancesOf(result))
        IN  /\ formatted.kind = "transcript"
            /\ TrimOf(formatted.body, j)
            /\ (NoEdgeSpace(j) => formatted.body = j)
            /\ (UtterancesOf(result) = <<>> => formatted.body = <<>>)

C1_Witness ==
    /\ TextCase
    /\ Len(UtterancesOf(result)) = 2
    /\ formatted.body = <<"a", "a", " ", "a">>

\* the k-th block: index, time-range line, text line
RefBlock(k, u) ==
    IntStr(k) \o <<"\n">> \o SecondsToSrtTime(GetStart(u)) \o <<" ", "-", "-", ">", " ">>
      \o SecondsToSrtTime(GetEnd(u)) \o <<"\n">> \o GetText(u)

RECURSIVE JoinBlocks(_, _)
\* blocks k..N separated by a blank line
JoinBlocks(us, k) ==
    IF k > Len(us) THEN <<>>
    ELSE IF k = Len(us) THEN RefBlock(k, us[k])
    ELSE RefBlock(k, us[k]) \o <<"\n", "\n">> \o JoinBlocks(us, k + 1)

\* C2 as claimed: with format "srt" the output is exactly the N blocks
\* (index k, "<start> --> <end>", text of the k-th utterance) in order,
\* separated by blank lines, with no trailing whitespace (read on the results
\* whose utterances carry every key).
C2_SrtIsBlocks ==
    SrtCase /\ FullyKeyed(result) =>
        /\ formatted.kind = "srt_content"
        /\ formatted.body = JoinBlocks(UtterancesOf(result), 1)
        /\ (formatted.body = <<>> \/ ~IsSpace(formatted.body[Len(formatted.body)]))

\* C2 amended: with format "srt" the output is the N blocks in order,
\* separated by blank lines, with the trailing whitespace of the whole
\* output removed (so the text line of the last block loses its trailing
\* whitespace, and is dropped when that text is empty); it is exactly the N
\* blocks whenever the last text is not empty and does not end in whitespace.
C2_SrtIsTrimmedBlocks ==
    SrtCase =>
        LET us == UtterancesOf(result)
            j  == JoinBlocks(us, 1)
        IN  /\ formatted.kind = "srt_content"
            /\ RTrimOf(formatted.body, j)
            /\ (NoEdgeSpace(j) => formatted.body = j)
            /\ (us = <<>> => formatted.body = <<>>)

C2_Witness ==
    /\ SrtCase
    /\ Len(UtterancesOf(result)) = 2
    /\ formatted.body =
         <<"1", "\n">> \o SecondsToSrtTime(0) \o <<" ", "-", "-", ">", " ">>
           \o SecondsToSrtTime(1500) \o <<"\n", "a", "\n", "\n", "2", "\n">>
           \o <<"0", "1", ":", "0", "1", ":", "0", "1", ",", "5", "0", "0">>
           \o <<" ", "-", "-", ">", " ">>
           \o <<"0", "1", ":", "0", "1", ":", "0", "2", ",", "2", "5", "0">>
           \o <<"\n", "a", "a">>

RECURSIVE WrapEachOccurrence(_, _)
\* s with every occurrence of k, compared case-insensitively, wrapped in **...**
WrapEachOccurrence(s, k) ==
    IF s = <<>> THEN <<>>
    ELSE IF StartsWith(LowerStr(s), LowerStr(k))
         THEN Bold(SubSeq(s, 1, Len(k)))
                \o WrapEachOccurrence(SubSeq(s, Len(k) + 1, Len(s)), k)
         ELSE <<Head(s)>> \o WrapEachOccurrence(Tail(s), k)

RECURSIVE WrapAllKeywords(_, _)
WrapAllKeywords(s, ks) ==
    IF ks = <<>> THEN s ELSE WrapAllKeywords(WrapEachOccurrence(s, Head(ks)), Tail(ks))

RECURSIVE JoinWrapped(_, _)
JoinWrapped(us, ks) ==
    IF us = <<>> THEN <<>>
    ELSE WrapAllKeywords(GetText(Head(us)), ks) \o <<" ">> \o JoinWrapped(Tail(us), ks)

\* C3: in highlight "text" format every occurrence of every keyword, matched
\* case-insensitively, is wrapped in **...** (keywords in the order given,
\* each pass on the text the earlier passes left); ["cat"] on "the cat sat"
\* gives "the **cat** sat".
C3_EveryOccurrenceIsWrapped ==
    (format = "text" /\ formatted # NotFormatted /\ keywords # <<>>) =>
        /\ formatted.kind = "highlighted_text"
        /\ formatted.body = Strip(JoinWrapped(UtterancesOf(result), keywords))

(***************************************************************************)
(* Claims about the time conversion.                                       *)
(***************************************************************************)
IsDigit(c) == \E d \in 0..9 : Digit(d) = c
DigitVal(c) == CHOOSE d \in 0..9 : Digit(d) = c

RECURSIVE NumVal(_)
NumVal(s) == IF s = <<>> THEN 0 ELSE NumVal(SubSeq(s, 1, Len(s) - 1)) * 10 + DigitVal(s[Len(s)])

AllDigits(s) == \A i \in 1..Len(s) : IsDigit(s[i])

\* tc reads <w digits>:<2 digits>:<2 digits>,<3 digits> and the fields are the
\* hours, minutes, seconds and milliseconds of ms whole milliseconds
ReadsAs(tc, w, ms) ==
    /\ Len(tc) = w + 10
    /\ tc[w + 1] = ":" /\ tc[w + 4] = ":" /\ tc[w + 7] = ","
    /\ LET hh  == SubSeq(tc, 1, w)
           mm  == SubSeq(tc, w + 2, w + 3)
           ss  == SubSeq(tc, w + 5, w + 6)
           mmm == SubSeq(tc, w + 8, w + 10)
       IN  /\ AllDigits(hh) /\ AllDigits(mm) /\ AllDigits(ss) /\ AllDigits(mmm)
           /\ NumVal(hh) = ms \div 3600000
           /\ NumVal(mm) = (ms % 3600000) \div 60000
           /\ NumVal(ss) = (ms % 60000) \div 1000
           /\ NumVal(mmm) = ms % 1000

Converted == seconds # NoTime /\ timecode # <<>>

\* C9: for every non-negative time of s whole milliseconds the timecode is
\* HH:MM:SS,mmm with HH = floor(s/3600), MM = floor((s mod 3600)/60),
\* SS = floor(s mod 60), mmm the millisecond part, in fields of 2, 2, 2 and 3
\* digits (read on the times below 100 hours, whose hours fit 2 digits).
C9_TimecodeFields ==
    (Converted /\ seconds < 360000000) => ReadsAs(timecode, 2, seconds)

(***************************************************************************)
(* Claims about the tool handlers.                                         *)
(***************************************************************************)
IsSubtitle == req.name = "audion_subtitle"
SavedDefault == pc = "done" /\ IsSubtitle /\ resp.status = "success"
Written(content) == \E f \in fsys.files : f.path = target /\ f.content = content

\* C4: downloadSubtitle with format "txt" writes the flattened transcript,
\* the string the "text" representation of the upstream result holds.
C4_TxtWritesTranscript ==
    (SavedDefault /\ req.format = "txt") =>
        Written(FormatVuResponse(upstream.result, "text").body)

\* C5: downloadSubtitle with format "vtt" writes "WEBVTT", a blank line, and
\* the SRT representation of the upstream result with commas made periods.
C5_VttWritesConvertedSrt ==
    (SavedDefault /\ req.format = "vtt") =>
        Written(WebVtt \o CommasToPeriods(FormatVuResponse(upstream.result, "srt").body))

\* the last path segment of a URL: what follows the last "/" once the query
\* string is cut off
LastPathSegment(src) == AfterLast(BeforeFirst(src, "?"), "/")

\* seg with its extension stripped: seg cut at one of its dots (the claim does
\* not say which one when there are several), seg itself when it has none
ExtensionStripped(seg) ==
    IF \E i \in 1..Len(seg) : seg[i] = "."
    THEN {SubSeq(seg, 1, i - 1) : i \in {j \in 1..Len(seg) : seg[j] = "."}}
    ELSE {seg}

\* C6: for an http(s) source and no output path the file is written to
\* subtitles/<base>.<format>, base being the last path segment of the URL
\* without query string and extension, or a timestamp name when that is empty.
C6_UrlBaseIsLastPathSegment ==
    (SavedDefault /\ IsHttp(req.input_source) /\ req.output_path = <<>>) =>
        \E b \in ExtensionStripped(LastPathSegment(req.input_source)) :
            target = SubtitleDir \o <<"/">> \o (IF b = <<>> THEN Timestamped ELSE b)
                       \o <<".", req.format>>

\* C7: no invocation raises to the host, and an invocation that fails answers
\* with a structured payload: status "error", a message, the request echoed.
C7_HostAlwaysGetsStructuredResponse ==
    pc = "done" =>
        /\ resp.kind # "raised"
        /\ (resp.kind # "json" \/ resp.status = "error") =>
              /\ resp.kind = "json" /\ resp.status = "error"
              /\ resp.message # <<>>
              /\ resp.source = req.input_source

UnsupportedFormat ==
    \/ req.name = "audion_vu" /\ req.format \notin {"json", "text", "srt"}
    \/ req.name = "audion_vh" /\ req.format \notin {"json", "text", "html"}
    \/ req.name = "audion_subtitle" /\ req.format \notin {"srt", "vtt", "txt"}

Accepted == pc \notin {"idle"} /\ req.given /\ SchemaValid(req) /\ UnsupportedFormat

UpstreamFailed == upstream.outcome \in {"transport", "status", "badjson"}

\* C10: when the upstream call fails, the operation has made exactly one
\* upstream attempt, does not raise, and answers with one structured payload
\* of status "error" whose message describes the upstream failure.
C10_UpstreamFailureReportedOnce ==
    UpstreamFailed =>
        /\ pc = "done"
        /\ attempts = 1
        /\ resp.kind = "json" /\ resp.status = "error"
        /\ resp.message = <<ToolPrefix(req.name), "Failed to call Audion API: ",
                            UpstreamCause(upstream.outcome)>>
        /\ resp.source = req.input_source
        /\ resp.payload = NotFormatted

C10_Witness ==
    /\ UpstreamFailed /\ upstream.outcome = "transport"
    /\ IsSubtitle /\ pc = "done" /\ attempts = 1
    /\ resp.status = "error"

(***************************************************************************)
(* Claims about the subtitle file and the success record.                  *)
(***************************************************************************)
\* the file the call wrote
WrittenFile == CHOOSE f \in fsys.files : f.path = target

\* C11: when downloadSubtitle succeeds, the returned record carries the
\* absolute output path and a size equal to the number of bytes written to
\* the file (the UTF-8 encoded length of the content), for every content,
\* content with non-ASCII characters included.
C11_SizeIsBytesWritten ==
    SavedDefault =>
        /\ \E f \in fsys.files : f.path = target
        /\ resp.output_path = Absolute(target)
        /\ resp.size = WrittenFile.bytes

(***************************************************************************)
(* Claims about results with missing keys.                                 *)
(***************************************************************************)
\* the utterance with every absent field written out as its default
FilledUtt(u) ==
    Utt(UttKeys,
        IF "text" \in u.keys THEN u.text ELSE <<>>,
        IF "start" \in u.keys THEN u.start ELSE 0,
        IF "end" \in u.keys THEN u.end ELSE 0)

\* the result with every absent utterance field written out as its default
Filled(r) == [r EXCEPT !.utterances = [i \in 1..Len(r.utterances) |-> FilledUtt(r.utterances[i])]]

ContainerMissing == ~(AllKeys \subseteq result.keys)
FieldMissing == \E i \in 1..Len(result.utterances) : result.utterances[i].keys # UttKeys

\* the empty value of each output
EmptyValue(kind) ==
    IF kind = "html_content" THEN <<"<div class='transcript'>", "</div>">> ELSE <<>>

\* C12 as stated: whenever any of content, output, utterances or an
\* utterance's text, start or end is missing, the text, srt, highlighted-text
\* and html outputs are the empty value.
C12_AnyMissingKeyGivesEmpty ==
    (formatted # NotFormatted /\ format \in {"text", "srt", "html"}
        /\ formatted.kind # "raw" /\ (ContainerMissing \/ FieldMissing)) =>
        formatted.body = EmptyValue(formatted.kind)

\* C12: for every result in which content, output or utterances is missing,
\* the text, srt, highlighted-text and html outputs are produced and are the
\* empty value (empty string, or the empty transcript container for html);
\* for every result in which an utterance lacks text, start or end, the
\* output is produced and is the one the formatter gives when the missing
\* text is the empty string and the missing time is 0.
C12_MissingKeysDegrade ==
    (formatted # NotFormatted /\ format \in {"text", "srt", "html"}
        /\ (ContainerMissing \/ FieldMissing)) =>
        /\ formatted.kind \in
              (CASE format = "text" -> {"transcript", "highlighted_text"}
                 [] format = "srt"  -> {"srt_content", "raw"}
                 [] OTHER           -> {"html_content", "raw"})
        /\ formatted.kind # "raw" =>
              /\ ContainerMissing => formatted.body = EmptyValue(formatted.kind)
              /\ formatted.kind \in {"transcript", "srt_content"} =>
                    formatted = FormatVuResponse(Filled(result), format)
              /\ formatted.kind \in {"highlighted_text", "html_content"} =>
                    formatted = FormatVhResponse(Filled(result), keywords, format)
        /\ formatted.kind = "raw" => formatted.raw = result

C12_Witness ==
    /\ format = "html" /\ keywords # <<>>
    /\ result.keys = AllKeys /\ Len(result.utterances) = 2
    /\ result.utterances[1].keys = {"text"} /\ result.utterances[2].keys = {"end"}
    /\ formatted.kind = "html_content"
    /\ formatted.body =
          <<"<div class='transcript'>", "<p data-time='", "0", "'>",
            "<mark class='highlight'>", "a", "</mark>", "</p>",
            "<p data-time='", "0", "'>", "</p>", "</div>">>

(***************************************************************************)
(* Claims about the order of the effects of audion_subtitle_download.      *)
(***************************************************************************)
\* what one step of the server may do to the filesystem
C13_Step ==
    /\ fsys' # fsys =>
        /\ IsSubtitle /\ upstream.outcome = "ok" /\ attempts = 1
        /\ upstream' = upstream /\ attempts' = attempts
    /\ fsys'.dirs # fsys.dirs => (pc = "resolve" /\ fsys'.files = fsys.files)
    /\ fsys'.files # fsys.files =>
        /\ pc = "write" /\ pc' = "done" /\ fsys'.dirs = fsys.dirs
        /\ Parent(target) \in fsys.dirs
        /\ \A f \in fsys'.files : f \in fsys.files \/ f.path = target
    /\ pc = "done" => fsys' = fsys
    /\ (UpstreamFailed \/ UpstreamFailed') => fsys' = fsys
    /\ (pc = "posted" /\ pc' = "done" /\ IsSubtitle) =>
        (UpstreamFailed' /\ fsys' \in InitialFs)

\* C13: in downloadSubtitle the upstream request completes before any change
\* of the filesystem: a directory is created only after a successful upstream
\* reply to the one request sent, the file is written only after that, into a
\* directory that exists by then, and is written once (nothing changes after
\* the write); whenever the upstream call has failed the filesystem is left
\* as it was: no directory created, no file created or overwritten.
C13_UpstreamBeforeFilesystem == [][C13_Step]_vars

C13_Witness ==
    /\ IsSubtitle /\ UpstreamFailed /\ pc = "done" /\ attempts = 1
    /\ req.output_path = <<>>
    /\ DefaultPath(req.input_source, req.format) = SubtitleDir \o <<"/", "v", ".", "srt">>
    /\ fsys.dirs = {SubtitleDir}
    /\ fsys.files = {File(SubtitleDir \o <<"/", "v", ".", "srt">>, <<"o", "l", "d">>)}

====
